---- MODULE Spec2Model ----
(***************************************************************************)
(* Booking Slots API (src/main.py): resources, bookings with conflict      *)
(* detection, cancel, and the free slots of a day.                         *)
(*                                                                         *)
(* Representation.  A naive datetime is an integer: the number of minutes  *)
(* since 2024-01-01T00:00 (all datetimes of the model have zero seconds).  *)
(* The strings that the code parses (date, work_start, work_end) and       *)
(* formats (slot start/end) are sequences of one-character strings; names  *)
(* and messages are opaque strings, and Python None is the string "None".  *)
(* A table is a sequence of rows; the row at index i has primary key i     *)
(* (SQLite rowid: max + 1, and no row is ever deleted).  A query result is *)
(* a sequence of rows, and a value-or-ValueError is a sequence of length   *)
(* one or zero.  datetime.utcnow() is a counter that every reading         *)
(* advances.  The requests of the model never set is_active to null.       *)
(*                                                                         *)
(* A response is a record [op, status, detail, body]: the HTTP status, the *)
(* detail of an HTTPException, and the returned rows or payload.  The      *)
(* variable response holds what the last step sent.                        *)
(*                                                                         *)
(* Spec runs every handler as one step, one request at a time.  SpecConc   *)
(* runs create_booking handlers concurrently, one step per store access.   *)
(* SpecAvail runs get_availability two steps per loop iteration, SpecTerm  *)
(* does so for any slot_minutes and keeps a started handler running.       *)
(* SpecList adds the bookings list, SpecRelease is the ledger alone.       *)
(***************************************************************************)
EXTENDS Integers, Sequences, FiniteSets, TLC

\* ------------------------------------------------------------------ bounds
MaxResources == 2
MaxBookings == 2
NumProcs == 2
MaxSlots == 18

None == "None"

\* ------------------------------------------------- datetime (library) model
Digits == {"0", "1", "2", "3", "4", "5", "6", "7", "8", "9"}

DigitVal(c) ==
    CASE c = "0" -> 0 [] c = "1" -> 1 [] c = "2" -> 2 [] c = "3" -> 3
      [] c = "4" -> 4 [] c = "5" -> 5 [] c = "6" -> 6 [] c = "7" -> 7
      [] c = "8" -> 8 [] c = "9" -> 9

DigitChar(n) ==
    CASE n = 0 -> "0" [] n = 1 -> "1" [] n = 2 -> "2" [] n = 3 -> "3"
      [] n = 4 -> "4" [] n = 5 -> "5" [] n = 6 -> "6" [] n = 7 -> "7"
      [] n = 8 -> "8" [] n = 9 -> "9"

AllDigits(s) == \A i \in 1..Len(s) : s[i] \in Digits

RECURSIVE NumVal(_)
NumVal(s) ==
    IF Len(s) = 0 THEN 0
    ELSE 10 * NumVal(SubSeq(s, 1, Len(s) - 1)) + DigitVal(s[Len(s)])

\* the position of the first occurrence of character c in s, 0 when absent
IndexOf(s, c) ==
    IF \E i \in 1..Len(s) : s[i] = c
    THEN CHOOSE i \in 1..Len(s) : s[i] = c /\ \A j \in 1..(i - 1) : s[j] # c
    ELSE 0

IsLeap(y) == y % 4 = 0 /\ (y % 100 # 0 \/ y % 400 = 0)

\* _DAYS_IN_MONTH and _DAYS_BEFORE_MONTH of the datetime module
DAYS_IN_MONTH == <<31, 28, 31, 30, 31, 30, 31, 31, 30, 31, 30, 31>>
DAYS_BEFORE_MONTH == <<0, 31, 59, 90, 120, 151, 181, 212, 243, 273, 304, 334>>

DaysInMonth(y, m) == IF m = 2 /\ IsLeap(y) THEN 29 ELSE DAYS_IN_MONTH[m]

DaysBeforeMonth(y, m) == DAYS_BEFORE_MONTH[m] + (IF m > 2 /\ IsLeap(y) THEN 1 ELSE 0)

DaysBeforeYear(y) ==
    LET p == y - 1 IN p * 365 + (p \div 4) - (p \div 100) + (p \div 400)

\* date.toordinal(): 0001-01-01 is day 1
Ymd2Ord(y, m, d) == DaysBeforeYear(y) + DaysBeforeMonth(y, m) + d

\* date.fromordinal(), as <<year, month, day>>
Ord2Ymd(ord) ==
    LET n0   == ord - 1
        n400 == n0 \div 146097
        r400 == n0 % 146097
        n100 == r400 \div 36524
        r100 == r400 % 36524
        n4   == r100 \div 1461
        r4   == r100 % 1461
        n1   == r4 \div 365
        n    == r4 % 365
        year == n400 * 400 + 1 + n100 * 100 + n4 * 4 + n1
        leapyear == n1 = 3 /\ (n4 # 24 \/ n100 = 3)
        guess == (n + 50) \div 32
        preceding == DAYS_BEFORE_MONTH[guess] + (IF guess > 2 /\ leapyear THEN 1 ELSE 0)
    IN  IF n1 = 4 \/ n100 = 4 THEN <<year - 1, 12, 31>>
        ELSE IF preceding > n
        THEN LET month == guess - 1
                 before == preceding - (DAYS_IN_MONTH[month]
                                        + (IF month = 2 /\ leapyear THEN 1 ELSE 0))
             IN  <<year, month, n - before + 1>>
        ELSE <<year, guess, n - preceding + 1>>

MinutesPerDay == 24 * 60
EpochOrdinal == Ymd2Ord(2024, 1, 1)

\* datetime.strptime(s, "%Y-%m-%d").date(): <<the day number>>, or <<>> on
\* ValueError.  %Y is four digits, %m and %d one or two digits.
ParseDate(s) ==
    LET p1   == IndexOf(s, "-")
        rest == SubSeq(s, p1 + 1, Len(s))
        p2   == IndexOf(rest, "-")
        ys   == SubSeq(s, 1, p1 - 1)
        ms   == SubSeq(rest, 1, p2 - 1)
        ds   == SubSeq(rest, p2 + 1, Len(rest))
    IN  IF /\ p1 = 5
           /\ p2 \in {2, 3}
           /\ Len(ds) \in {1, 2}
           /\ AllDigits(ys) /\ AllDigits(ms) /\ AllDigits(ds)
           /\ NumVal(ys) >= 1
           /\ NumVal(ms) \in 1..12
           /\ NumVal(ds) \in 1..DaysInMonth(NumVal(ys), NumVal(ms))
        THEN <<Ymd2Ord(NumVal(ys), NumVal(ms), NumVal(ds)) - EpochOrdinal>>
        ELSE <<>>

\* datetime.strptime(s, "%H:%M").time(): <<the minute of the day>>, or <<>>
\* on ValueError.  %H and %M are one or two digits.
ParseTime(s) ==
    LET p  == IndexOf(s, ":")
        hs == SubSeq(s, 1, p - 1)
        ms == SubSeq(s, p + 1, Len(s))
    IN  IF /\ p \in {2, 3}
           /\ Len(ms) \in {1, 2}
           /\ AllDigits(hs) /\ AllDigits(ms)
           /\ NumVal(hs) \in 0..23
           /\ NumVal(ms) \in 0..59
        THEN <<NumVal(hs) * 60 + NumVal(ms)>>
        ELSE <<>>

\* datetime.combine(date, time)
Combine(day, minute) == day * MinutesPerDay + minute

\* "%0<w>d" % n
RECURSIVE ZeroPad(_, _)
ZeroPad(n, w) ==
    IF w = 0 THEN <<>> ELSE Append(ZeroPad(n \div 10, w - 1), DigitChar(n % 10))

\* datetime.isoformat() of a naive datetime with zero seconds/microseconds
IsoFormat(t) ==
    LET day == t \div MinutesPerDay
        mod == t % MinutesPerDay
        ymd == Ord2Ymd(day + EpochOrdinal)
    IN  ZeroPad(ymd[1], 4) \o <<"-">> \o ZeroPad(ymd[2], 2) \o <<"-">>
          \o ZeroPad(ymd[3], 2) \o <<"T">> \o ZeroPad(mod \div 60, 2)
          \o <<":">> \o ZeroPad(mod % 60, 2) \o <<":", "0", "0">>

\* a datetime field of a request body given as the ISO 8601 string
\* "YYYY-MM-DDTHH:MM:00": <<the datetime>>, or <<>> when it is not one
ParseIsoDatetime(s) ==
    IF Len(s) = 19 /\ s[5] = "-" /\ s[8] = "-" /\ s[11] = "T" /\ s[14] = ":"
       /\ SubSeq(s, 17, 19) = <<":", "0", "0">>
    THEN LET d == ParseDate(SubSeq(s, 1, 10))
             t == ParseTime(SubSeq(s, 12, 16))
         IN  IF d = <<>> \/ t = <<>> THEN <<>> ELSE <<Combine(d[1], t[1])>>
    ELSE <<>>

\* ------------------------------------------------------------ request inputs
ResourceIds == 1..(MaxResources + 1)
BookingIds == 1..(MaxBookings + 1)
Procs == 1..NumProcs
Customers == {"alice", "bob"}

T(h, m) == h * 60 + m

\* <<start_at, end_at>> of the booking requests: valid ones, and ones that
\* check_dates rejects
ValidIntervals ==
    { <<T(10, 0), T(11, 0)>>, <<T(10, 30), T(10, 45)>>, <<T(11, 0), T(12, 0)>> }
InvalidIntervals == { <<T(11, 0), T(10, 0)>>, <<T(10, 30), T(10, 30)>> }

\* intervals around the working window of 2024-01-01, and one on 2024-01-02
AvailIntervals ==
    { <<T(10, 0), T(10, 30)>>, <<T(10, 30), T(10, 45)>>, <<T(8, 30), T(9, 10)>>,
      <<MinutesPerDay + T(10, 0), MinutesPerDay + T(11, 0)>> }

\* two back-to-back intervals and one that straddles both
ReleaseIntervals ==
    { <<T(10, 0), T(11, 0)>>, <<T(11, 0), T(12, 0)>>, <<T(10, 30), T(11, 30)>> }

\* BookingCreate bodies with well-typed fields
Requests(rids, customers, intervals) ==
    { [resource_id |-> r, customer_name |-> c, start_at |-> i[1], end_at |-> i[2]] :
        r \in rids, c \in customers, i \in intervals }

BookingRequests == Requests(ResourceIds, Customers, ValidIntervals \cup InvalidIntervals)

\* ResourceUpdate.model_dump(exclude_unset=True): the keys the client set
UpdateDicts ==
    { [k \in {} |-> None],
      [k \in {"name"} |-> "B"], [k \in {"name"} |-> None],
      [k \in {"is_active"} |-> TRUE], [k \in {"is_active"} |-> FALSE],
      [name |-> "B", is_active |-> FALSE] }

\* date, work_start and work_end strings: well-formed, well-formed with one
\* digit, not a day of the calendar or a time of the day, not in the format
Dates ==
    { <<"2", "0", "2", "4", "-", "0", "1", "-", "0", "1">>,
      <<"2", "0", "2", "4", "-", "1", "-", "2">>,
      <<"2", "0", "2", "4", "-", "0", "2", "-", "3", "0">>,
      <<"0", "1", "/", "0", "1", "/", "2", "0", "2", "4">> }

WorkStarts == { <<"0", "9", ":", "0", "0">>, <<"9", ":", "6", "0">> }

WorkEnds == { <<"1", "1", ":", "0", "0">>, <<"1", "0", ":", "4", "0">>,
              <<"0", "8", ":", "0", "0">>, <<"2", "4", ":", "0", "0">>,
              <<"1", "8", ":", "0", "0">>, <<"0", "9", ":", "2", "0">> }

SlotMinutes == {30, 45}

\* query parameters of GET /bookings; an Optional parameter is a sequence of
\* length one, or of length zero for None (the parameter is not sent)
OptResourceIds == { <<>>, <<0>>, <<1>>, <<2>> }
OptDateFroms == { <<>>, <<T(10, 30)>> }
OptDateTos == { <<>>, <<T(11, 0)>> }
OptStatuses == { <<>>, <<"">>, <<"active">>, <<"canceled">> }

\* slot_minutes is any int: a positive one, zero, and minus 400 years
AnySlotMinutes == {30, 0, -(146097 * MinutesPerDay)}

\* ------------------------------------------------------------------- state
VARIABLES
    resources,   \* table "resources": rows [id, name, type, is_active]
    bookings,    \* table "bookings": rows [id, resource_id, customer_name,
                 \*   start_at, end_at, status, created_at]
    now,         \* datetime.utcnow()
    response,    \* the response that the last step sent, NoResponse if none
    pc,          \* per concurrent request handler: its position
    local        \* per concurrent request handler: its request body

vars == <<resources, bookings, now, response, pc, local>>

NoResponse == [op |-> "none", status |-> 0, detail |-> "", body |-> <<>>]
NoRequest == [resource_id |-> 0, customer_name |-> "", start_at |-> 0, end_at |-> 0]

Ok(op, body) == [op |-> op, status |-> 200, detail |-> "", body |-> body]
HTTPException(op, status_code, detail) ==
    [op |-> op, status |-> status_code, detail |-> detail, body |-> <<>>]

Init ==
    /\ resources = <<>>
    /\ bookings = <<>>
    /\ now = 0
    /\ response = NoResponse
    /\ pc = [p \in Procs |-> "idle"]
    /\ local = [p \in Procs |-> NoRequest]

\* db.query(Resource).filter(Resource.id == resource_id)
QueryResource(tbl, resource_id) == SelectSeq(tbl, LAMBDA r : r.id = resource_id)

\* db.query(Booking).filter(Booking.id == booking_id)
QueryBooking(tbl, booking_id) == SelectSeq(tbl, LAMBDA b : b.id = booking_id)

\* POST /resources
create_resource(name, type, is_active) ==
    /\ Len(resources) < MaxResources
    /\ LET db_resource == [id |-> Len(resources) + 1, name |-> name,
                           type |-> type, is_active |-> is_active]
       IN  /\ resources' = Append(resources, db_resource)
           /\ response' = Ok("create_resource", <<db_resource>>)
    /\ UNCHANGED <<bookings, now, pc, local>>

\* the setattr loop of update_resource
SetAttrs(res, update_dict) ==
    [k \in DOMAIN res |-> IF k \in DOMAIN update_dict THEN update_dict[k] ELSE res[k]]

\* faulty variant: deactivating a resource cancels its bookings
update_resource_Cascade(resource_id, update_dict) ==
    LET q == QueryResource(resources, resource_id)
    IN  /\ IF q = <<>>
           THEN /\ response' = HTTPException("update_resource", 404, "Resource not found")
                /\ UNCHANGED <<resources, bookings>>
           ELSE LET res == SetAttrs(q[1], update_dict)
                IN  IF res.name = None
                    THEN /\ response' = HTTPException("update_resource", 500, "IntegrityError")
                         /\ UNCHANGED <<resources, bookings>>
                    ELSE /\ resources' = [resources EXCEPT ![resource_id] = res]
                         /\ bookings' =
                              [i \in 1..Len(bookings) |->
                                 IF bookings[i].resource_id = resource_id /\ ~res.is_active
                                 THEN [bookings[i] EXCEPT !.status = "canceled"]
                                 ELSE bookings[i]]
                         /\ response' = Ok("update_resource", <<res>>)
        /\ UNCHANGED <<now, pc, local>>

\* PATCH /resources/{resource_id}
update_resource(resource_id, update_dict) ==
    LET q == QueryResource(resources, resource_id)
    IN  /\ IF q = <<>>
           THEN /\ response' = HTTPException("update_resource", 404, "Resource not found")
                /\ UNCHANGED resources
           ELSE LET res == SetAttrs(q[1], update_dict)
                IN  IF res.name = None
                    THEN \* db.commit() fails: resources.name is NOT NULL
                         /\ response' = HTTPException("update_resource", 500, "IntegrityError")
                         /\ UNCHANGED resources
                    ELSE /\ resources' = [resources EXCEPT ![resource_id] = res]
                         /\ response' = Ok("update_resource", <<res>>)
        /\ UNCHANGED <<bookings, now, pc, local>>

\* faulty variant: an empty interval passes the validator
check_dates_Strict(req) == req.end_at < req.start_at

\* BookingCreate.check_dates: TRUE when the validator raises ValueError
check_dates(req) == req.end_at <= req.start_at

\* faulty variant: closed intervals, touching endpoints conflict
ConflictQuery_Closed(tbl, req) ==
    SelectSeq(tbl, LAMBDA b : /\ b.resource_id = req.resource_id
                              /\ b.status = "active"
                              /\ b.start_at <= req.end_at
                              /\ b.end_at >= req.start_at)

\* faulty variant: the second bound compares the two start times
ConflictQuery_StartVsStart(tbl, req) ==
    SelectSeq(tbl, LAMBDA b : /\ b.resource_id = req.resource_id
                              /\ b.status = "active"
                              /\ b.start_at < req.end_at
                              /\ b.start_at > req.start_at)

\* faulty variant: the status filter is missing, canceled bookings conflict
ConflictQuery_AnyStatus(tbl, req) ==
    SelectSeq(tbl, LAMBDA b : /\ b.resource_id = req.resource_id
                              /\ b.start_at < req.end_at
                              /\ b.end_at > req.start_at)

\* the conflict query of create_booking
ConflictQuery(tbl, req) ==
    SelectSeq(tbl, LAMBDA b : /\ b.resource_id = req.resource_id
                              /\ b.status = "active"
                              /\ b.start_at < req.end_at
                              /\ b.end_at > req.start_at)

\* faulty variant: the row is inserted without the status the handler sets
NewBooking_Pending(tbl, req, t) ==
    [id |-> Len(tbl) + 1, resource_id |-> req.resource_id,
     customer_name |-> req.customer_name, start_at |-> req.start_at,
     end_at |-> req.end_at, status |-> "pending", created_at |-> t]

\* Booking(**booking.model_dump(), status="active") as inserted into tbl at time t
NewBooking(tbl, req, t) ==
    [id |-> Len(tbl) + 1, resource_id |-> req.resource_id,
     customer_name |-> req.customer_name, start_at |-> req.start_at,
     end_at |-> req.end_at, status |-> "active", created_at |-> t]

\* faulty variant: the is_active test is missing
ResourceRejected_NoActiveTest(tbl, req) ==
    QueryResource(tbl, req.resource_id) = <<>>

\* the resource check of create_booking: TRUE when the handler raises
ResourceRejected(tbl, req) ==
    LET q == QueryResource(tbl, req.resource_id)
    IN  q = <<>> \/ ~q[1].is_active

\* faulty variant: the row is added before the conflict query and stays on a conflict
create_booking_InsertFirst(req) ==
    /\ IF check_dates(req)
       THEN /\ response' = HTTPException("create_booking", 422,
                                         "end_at must be greater than start_at")
            /\ UNCHANGED <<bookings, now>>
       ELSE IF ResourceRejected(resources, req)
       THEN /\ response' = HTTPException("create_booking", 400,
                                         "Resource not found or inactive")
            /\ UNCHANGED <<bookings, now>>
       ELSE /\ Len(bookings) < MaxBookings
            /\ LET new_booking == NewBooking(bookings, req, now)
               IN  /\ bookings' = Append(bookings, new_booking)
                   /\ now' = now + 1
                   /\ response' =
                        IF ConflictQuery(bookings, req) # <<>>
                        THEN HTTPException("create_booking", 409,
                                           "Time slot already booked")
                        ELSE Ok("create_booking", <<new_booking>>)
    /\ UNCHANGED <<resources, pc, local>>

\* POST /bookings, the whole handler as one step
create_booking(req) ==
    /\ IF check_dates(req)
       THEN /\ response' = HTTPException("create_booking", 422,
                                         "end_at must be greater than start_at")
            /\ UNCHANGED <<bookings, now>>
       ELSE IF ResourceRejected(resources, req)
       THEN /\ response' = HTTPException("create_booking", 400,
                                         "Resource not found or inactive")
            /\ UNCHANGED <<bookings, now>>
       ELSE IF ConflictQuery(bookings, req) # <<>>
       THEN /\ response' = HTTPException("create_booking", 409,
                                         "Time slot already booked")
            /\ UNCHANGED <<bookings, now>>
       ELSE /\ Len(bookings) < MaxBookings
            /\ LET new_booking == NewBooking(bookings, req, now)
               IN  /\ bookings' = Append(bookings, new_booking)
                   /\ response' = Ok("create_booking", <<new_booking>>)
                   /\ now' = now + 1
    /\ UNCHANGED <<resources, pc, local>>

\* faulty variant: the status update runs for every booking of the same resource
cancel_booking_WholeResource(booking_id) ==
    LET q == QueryBooking(bookings, booking_id)
    IN  /\ IF q = <<>>
           THEN /\ response' = HTTPException("cancel_booking", 404, "Booking not found")
                /\ UNCHANGED bookings
           ELSE LET booking == [q[1] EXCEPT !.status = "canceled"]
                IN  /\ bookings' =
                         [i \in 1..Len(bookings) |->
                            IF bookings[i].resource_id = q[1].resource_id
                            THEN [bookings[i] EXCEPT !.status = "canceled"]
                            ELSE bookings[i]]
                    /\ response' = Ok("cancel_booking", <<booking>>)
        /\ UNCHANGED <<resources, now, pc, local>>

\* faulty variant: canceling a canceled booking is refused
cancel_booking_Guarded(booking_id) ==
    LET q == QueryBooking(bookings, booking_id)
    IN  /\ IF q = <<>>
           THEN /\ response' = HTTPException("cancel_booking", 404, "Booking not found")
                /\ UNCHANGED bookings
           ELSE IF q[1].status = "canceled"
           THEN /\ response' = HTTPException("cancel_booking", 400, "Booking already canceled")
                /\ UNCHANGED bookings
           ELSE LET booking == [q[1] EXCEPT !.status = "canceled"]
                IN  /\ bookings' = [bookings EXCEPT ![booking_id] = booking]
                    /\ response' = Ok("cancel_booking", <<booking>>)
        /\ UNCHANGED <<resources, now, pc, local>>

\* POST /bookings/{booking_id}/cancel
cancel_booking(booking_id) ==
    LET q == QueryBooking(bookings, booking_id)
    IN  /\ IF q = <<>>
           THEN /\ response' = HTTPException("cancel_booking", 404, "Booking not found")
                /\ UNCHANGED bookings
           ELSE LET booking == [q[1] EXCEPT !.status = "canceled"]
                IN  /\ bookings' = [bookings EXCEPT ![booking_id] = booking]
                    /\ response' = Ok("cancel_booking", <<booking>>)
        /\ UNCHANGED <<resources, now, pc, local>>

\* .order_by(Booking.start_at): insertion of row b into a sorted sequence,
\* after the rows with the same start_at
RECURSIVE InsertByStart(_, _)
InsertByStart(sorted, b) ==
    IF sorted = <<>> THEN <<b>>
    ELSE IF Head(sorted).start_at <= b.start_at
         THEN <<Head(sorted)>> \o InsertByStart(Tail(sorted), b)
         ELSE <<b>> \o sorted

RECURSIVE OrderByStart(_)
OrderByStart(q) ==
    IF q = <<>> THEN <<>>
    ELSE InsertByStart(OrderByStart(SubSeq(q, 1, Len(q) - 1)), q[Len(q)])

\* faulty variant: the status filter is missing
DayBookings_AnyStatus(tbl, resource_id, day_start, day_end) ==
    OrderByStart(SelectSeq(tbl, LAMBDA b : /\ b.resource_id = resource_id
                                           /\ b.end_at > day_start
                                           /\ b.start_at < day_end))

\* faulty variant: the resource filter is missing
DayBookings_AnyResource(tbl, resource_id, day_start, day_end) ==
    OrderByStart(SelectSeq(tbl, LAMBDA b : /\ b.status = "active"
                                           /\ b.end_at > day_start
                                           /\ b.start_at < day_end))

\* the bookings query of get_availability
DayBookings(tbl, resource_id, day_start, day_end) ==
    OrderByStart(SelectSeq(tbl, LAMBDA b : /\ b.resource_id = resource_id
                                           /\ b.status = "active"
                                           /\ b.end_at > day_start
                                           /\ b.start_at < day_end))

\* faulty variant: a slot that touches a booking at an endpoint is not free
RECURSIVE IsFree_Closed(_, _, _)
IsFree_Closed(bs, current_slot, slot_end) ==
    IF bs = <<>> THEN TRUE
    ELSE IF current_slot <= Head(bs).end_at /\ slot_end >= Head(bs).start_at
         THEN FALSE
         ELSE IsFree_Closed(Tail(bs), current_slot, slot_end)

\* the inner for loop of get_availability over the remaining bookings bs
RECURSIVE IsFree(_, _, _)
IsFree(bs, current_slot, slot_end) ==
    IF bs = <<>> THEN TRUE
    ELSE IF current_slot < Head(bs).end_at /\ slot_end > Head(bs).start_at
         THEN FALSE
         ELSE IsFree(Tail(bs), current_slot, slot_end)

\* the while loop of get_availability (slot_minutes > 0)
RECURSIVE SlotLoop(_, _, _, _, _)
SlotLoop(current_slot, day_end, slot_minutes, bs, available_slots) ==
    IF current_slot + slot_minutes <= day_end
    THEN LET slot_end == current_slot + slot_minutes
         IN  SlotLoop(slot_end, day_end, slot_minutes, bs,
                      IF IsFree(bs, current_slot, slot_end)
                      THEN Append(available_slots,
                                  [start |-> IsoFormat(current_slot),
                                   end |-> IsoFormat(slot_end)])
                      ELSE available_slots)
    ELSE available_slots

\* GET /resources/{resource_id}/availability
get_availability(resource_id, date, slot_minutes, work_start, work_end) ==
    LET target_date == ParseDate(date)
        start_t == ParseTime(work_start)
        end_t == ParseTime(work_end)
    IN  /\ IF target_date = <<>> \/ start_t = <<>> \/ end_t = <<>>
           THEN response' = HTTPException("get_availability", 400,
                                          "Invalid date/time format")
           ELSE LET day_start == Combine(target_date[1], start_t[1])
                    day_end == Combine(target_date[1], end_t[1])
                    bs == DayBookings(bookings, resource_id, day_start, day_end)
                IN  response' =
                      Ok("get_availability",
                         <<[resource_id |-> resource_id, date |-> date,
                            available_slots |->
                              SlotLoop(day_start, day_end, slot_minutes, bs, <<>>)]>>)
        /\ UNCHANGED <<resources, bookings, now, pc, local>>

\* POST /bookings in a handler p that runs concurrently with the others: the
\* statements that access the store are separate steps.
\* Step 1, main.py lines 134-136: body validation and the resource lookup.
cb_lookup(p, req) ==
    /\ pc[p] = "idle"
    /\ IF check_dates(req)
       THEN /\ response' = HTTPException("create_booking", 422,
                                         "end_at must be greater than start_at")
            /\ UNCHANGED <<pc, local>>
       ELSE IF ResourceRejected(resources, req)
       THEN /\ response' = HTTPException("create_booking", 400,
                                         "Resource not found or inactive")
            /\ UNCHANGED <<pc, local>>
       ELSE /\ pc' = [pc EXCEPT ![p] = "query"]
            /\ local' = [local EXCEPT ![p] = req]
            /\ response' = NoResponse
    /\ UNCHANGED <<resources, bookings, now>>

\* Step 2, lines 139-149: the conflict query.
cb_query(p) ==
    /\ pc[p] = "query"
    /\ IF ConflictQuery(bookings, local[p]) # <<>>
       THEN /\ response' = HTTPException("create_booking", 409,
                                         "Time slot already booked")
            /\ pc' = [pc EXCEPT ![p] = "idle"]
            /\ local' = [local EXCEPT ![p] = NoRequest]
       ELSE /\ pc' = [pc EXCEPT ![p] = "insert"]
            /\ response' = NoResponse
            /\ UNCHANGED local
    /\ UNCHANGED <<resources, bookings, now>>

\* Step 3, lines 151-155: the insert and its commit.
cb_insert(p) ==
    /\ pc[p] = "insert"
    /\ Len(bookings) < MaxBookings
    /\ LET new_booking == NewBooking(bookings, local[p], now)
       IN  /\ bookings' = Append(bookings, new_booking)
           /\ response' = Ok("create_booking", <<new_booking>>)
           /\ now' = now + 1
    /\ pc' = [pc EXCEPT ![p] = "idle"]
    /\ local' = [local EXCEPT ![p] = NoRequest]
    /\ UNCHANGED resources

\* GET /resources/{resource_id}/availability in a handler p, two steps per
\* iteration of the while loop.  local[p] is the frame of the call.
\* Lines 191-198: the call binds the parameters.
av_call(p, resource_id, date, slot_minutes, work_start, work_end) ==
    /\ pc[p] = "idle"
    /\ pc' = [pc EXCEPT ![p] = "parse"]
    /\ local' = [local EXCEPT ![p] =
          [resource_id |-> resource_id, date |-> date, slot_minutes |-> slot_minutes,
           work_start |-> work_start, work_end |-> work_end]]
    /\ response' = NoResponse
    /\ UNCHANGED <<resources, bookings, now>>

\* Lines 199-217: parsing, the window, the bookings query, the loop variables.
av_parse(p) ==
    /\ pc[p] = "parse"
    /\ LET a == local[p]
           target_date == ParseDate(a.date)
           start_t == ParseTime(a.work_start)
           end_t == ParseTime(a.work_end)
       IN  IF target_date = <<>> \/ start_t = <<>> \/ end_t = <<>>
           THEN /\ response' = HTTPException("get_availability", 400,
                                             "Invalid date/time format")
                /\ pc' = [pc EXCEPT ![p] = "idle"]
                /\ local' = [local EXCEPT ![p] = NoRequest]
           ELSE LET day_start == Combine(target_date[1], start_t[1])
                    day_end == Combine(target_date[1], end_t[1])
                IN  /\ pc' = [pc EXCEPT ![p] = "loop"]
                    /\ local' = [local EXCEPT ![p] =
                          [resource_id |-> a.resource_id, date |-> a.date,
                           slot_minutes |-> a.slot_minutes,
                           day_start |-> day_start, day_end |-> day_end,
                           bookings |-> DayBookings(bookings, a.resource_id,
                                                    day_start, day_end),
                           available_slots |-> <<>>,
                           current_slot |-> day_start]]
                    /\ response' = NoResponse
    /\ UNCHANGED <<resources, bookings, now>>

\* datetime.min, 0001-01-01T00:00: datetime + timedelta raises OverflowError
\* below it.  (The sums of the model stay far below datetime.max.)
DatetimeMin == Combine(1 - EpochOrdinal, 0)

\* faulty variant: a slot that ends exactly at day_end is not emitted
LoopCondition_Strict(f) == f.current_slot + f.slot_minutes < f.day_end

\* line 219: the condition of the while loop, for a frame f whose sum is in range
LoopCondition(f) == f.current_slot + f.slot_minutes <= f.day_end

\* Lines 219-221: the loop condition is true; slot_end and is_free are set.
av_test(p) ==
    /\ pc[p] = "loop"
    /\ LET f == local[p]
       IN  /\ f.current_slot + f.slot_minutes >= DatetimeMin
           /\ LoopCondition(f)
           /\ local' = [local EXCEPT ![p] =
                 [resource_id |-> f.resource_id, date |-> f.date,
                  slot_minutes |-> f.slot_minutes,
                  day_start |-> f.day_start, day_end |-> f.day_end,
                  bookings |-> f.bookings,
                  available_slots |-> f.available_slots,
                  current_slot |-> f.current_slot,
                  slot_end |-> f.current_slot + f.slot_minutes,
                  is_free |-> TRUE]]
    /\ pc' = [pc EXCEPT ![p] = "scan"]
    /\ response' = NoResponse
    /\ UNCHANGED <<resources, bookings, now>>

\* Lines 223-234: the for loop over the bookings, the append, the advance.
av_scan(p) ==
    /\ pc[p] = "scan"
    /\ LET f == local[p]
           is_free == IsFree(f.bookings, f.current_slot, f.slot_end)
       IN  /\ is_free => Len(f.available_slots) < MaxSlots
           /\ local' = [local EXCEPT ![p] =
                 [f EXCEPT !.is_free = is_free,
                           !.available_slots =
                             IF is_free
                             THEN Append(f.available_slots,
                                         [start |-> IsoFormat(f.current_slot),
                                          end |-> IsoFormat(f.slot_end)])
                             ELSE f.available_slots,
                           !.current_slot = f.current_slot + f.slot_minutes]]
    /\ pc' = [pc EXCEPT ![p] = "loop"]
    /\ response' = NoResponse
    /\ UNCHANGED <<resources, bookings, now>>

\* Line 219 ends the loop: the sum raises OverflowError, which the framework
\* answers with 500, or the condition is false and line 236 returns.
av_return(p) ==
    /\ pc[p] = "loop"
    /\ LET f == local[p]
       IN  IF f.current_slot + f.slot_minutes < DatetimeMin
           THEN response' = HTTPException("get_availability", 500,
                                          "Internal Server Error")
           ELSE /\ ~LoopCondition(f)
                /\ response' = Ok("get_availability",
                                  <<[resource_id |-> f.resource_id, date |-> f.date,
                                     available_slots |-> f.available_slots]>>)
    /\ pc' = [pc EXCEPT ![p] = "idle"]
    /\ local' = [local EXCEPT ![p] = NoRequest]
    /\ UNCHANGED <<resources, bookings, now>>

\* faulty variant: the status filter is missing
FilterBookings_NoStatus(tbl, resource_id, date_from, date_to, status) ==
    SelectSeq(tbl, LAMBDA b :
        /\ (resource_id # <<>> /\ resource_id[1] # 0) => b.resource_id = resource_id[1]
        /\ date_from # <<>> => b.start_at >= date_from[1]
        /\ date_to # <<>> => b.end_at <= date_to[1])

\* the filters of get_bookings, lines 165-174.  `if x:` is Python truth: None,
\* the int 0 and the empty string skip the filter; a datetime is always true.
FilterBookings(tbl, resource_id, date_from, date_to, status) ==
    SelectSeq(tbl, LAMBDA b :
        /\ (resource_id # <<>> /\ resource_id[1] # 0) => b.resource_id = resource_id[1]
        /\ date_from # <<>> => b.start_at >= date_from[1]
        /\ date_to # <<>> => b.end_at <= date_to[1]
        /\ (status # <<>> /\ status[1] # "") => b.status = status[1])

\* .order_by(Booking.start_at).all(): the rows of q by non-decreasing start_at;
\* SQL leaves the order of rows with equal start_at open
OrderBy(q) ==
    LET n == Len(q)
        perms == { f \in [1..n -> 1..n] : \A i, j \in 1..n : i # j => f[i] # f[j] }
    IN  { [i \in 1..n |-> q[f[i]]] : f \in
            { g \in perms : \A i \in 1..(n - 1) : q[g[i]].start_at <= q[g[i + 1]].start_at } }

\* GET /bookings in a handler p.  Lines 158-164: the call binds the parameters.
gb_call(p, resource_id, date_from, date_to, status) ==
    /\ pc[p] = "idle"
    /\ pc' = [pc EXCEPT ![p] = "list"]
    /\ local' = [local EXCEPT ![p] =
          [resource_id |-> resource_id, date_from |-> date_from,
           date_to |-> date_to, status |-> status]]
    /\ response' = NoResponse
    /\ UNCHANGED <<resources, bookings, now>>

\* Lines 165-176: the query is built, run and returned.
gb_query(p) ==
    /\ pc[p] = "list"
    /\ LET a == local[p]
       IN  \E rows \in OrderBy(FilterBookings(bookings, a.resource_id, a.date_from,
                                              a.date_to, a.status)) :
              response' = Ok("get_bookings", rows)
    /\ pc' = [pc EXCEPT ![p] = "idle"]
    /\ local' = [local EXCEPT ![p] = NoRequest]
    /\ UNCHANGED <<resources, bookings, now>>

\* the client takes the response
Deliver ==
    /\ response # NoResponse
    /\ response' = NoResponse
    /\ UNCHANGED <<resources, bookings, now, pc, local>>

\* ------------------------------------------------------------ specifications
\* One request at a time: a request starts when no handler runs and the
\* response of the previous one is taken.
Ready == response = NoResponse /\ \A p \in Procs : pc[p] = "idle"

\* The ledger, every handler as one step.
Next ==
    \/ Ready /\ \E is_active \in BOOLEAN : create_resource("A", "room", is_active)
    \/ Ready /\ \E resource_id \in ResourceIds, update_dict \in UpdateDicts :
          update_resource(resource_id, update_dict)
    \/ Ready /\ \E req \in BookingRequests : create_booking(req)
    \/ Ready /\ \E booking_id \in BookingIds : cancel_booking(booking_id)
    \/ Ready /\ \E resource_id \in ResourceIds,
          date \in { <<"2", "0", "2", "4", "-", "0", "1", "-", "0", "1">>,
                     <<"2", "0", "2", "4", "-", "0", "2", "-", "3", "0">> },
          work_end \in { <<"1", "1", ":", "0", "0">>, <<"2", "4", ":", "0", "0">> } :
          get_availability(resource_id, date, 30, <<"0", "9", ":", "0", "0">>, work_end)
    \/ Deliver

Spec == Init /\ [][Next]_vars

\* The ledger with concurrent create_booking handlers, one step per store
\* access.
ConcRequests == Requests(ResourceIds, {"alice"}, ValidIntervals \cup InvalidIntervals)

NextConc ==
    \/ \E is_active \in BOOLEAN : create_resource("A", "room", is_active)
    \/ \E resource_id \in ResourceIds, is_active \in BOOLEAN :
          update_resource(resource_id, [k \in {"is_active"} |-> is_active])
    \/ \E booking_id \in BookingIds : cancel_booking(booking_id)
    \/ \E p \in Procs, req \in ConcRequests : cb_lookup(p, req)
    \/ \E p \in Procs : cb_query(p)
    \/ \E p \in Procs : cb_insert(p)

SpecConc == Init /\ [][NextConc]_vars

\* The ledger and the availability query, one request at a time; the
\* availability handler takes one step per loop iteration.
NextAvail ==
    \/ Ready /\ create_resource("A", "room", TRUE)
    \/ Ready /\ \E resource_id \in 1..MaxResources :
          update_resource(resource_id, [k \in {"is_active"} |-> FALSE])
    \/ Ready /\ \E req \in Requests(1..MaxResources, {"alice"}, AvailIntervals) :
          create_booking(req)
    \/ Ready /\ \E booking_id \in 1..MaxBookings : cancel_booking(booking_id)
    \/ Ready /\ \E resource_id \in ResourceIds, date \in Dates,
                   slot_minutes \in SlotMinutes, work_start \in WorkStarts,
                   work_end \in WorkEnds :
          av_call(1, resource_id, date, slot_minutes, work_start, work_end)
    \/ av_parse(1)
    \/ av_test(1)
    \/ av_scan(1)
    \/ av_return(1)
    \/ Deliver

SpecAvail == Init /\ [][NextAvail]_vars

\* The availability query with any slot_minutes.  A handler that has started
\* keeps running: its thread is scheduled until the handler ends.
NextTerm ==
    \/ Ready /\ create_resource("A", "room", TRUE)
    \/ Ready /\ \E req \in Requests({1}, {"alice"},
                                    { <<T(8, 30), T(9, 10)>>, <<T(10, 0), T(10, 30)>> }) :
          create_booking(req)
    \/ Ready /\ \E booking_id \in 1..MaxBookings : cancel_booking(booking_id)
    \/ Ready /\ \E resource_id \in 1..MaxResources, slot_minutes \in AnySlotMinutes,
                   work_end \in { <<"1", "1", ":", "0", "0">>, <<"0", "8", ":", "0", "0">>,
                                  <<"2", "4", ":", "0", "0">> } :
          av_call(1, resource_id, <<"2", "0", "2", "4", "-", "0", "1", "-", "0", "1">>,
                  slot_minutes, <<"0", "9", ":", "0", "0">>, work_end)
    \/ av_parse(1)
    \/ av_test(1)
    \/ av_scan(1)
    \/ av_return(1)
    \/ Deliver

SpecTerm ==
    /\ Init /\ [][NextTerm]_vars
    /\ WF_vars(av_parse(1)) /\ WF_vars(av_test(1))
    /\ WF_vars(av_scan(1)) /\ WF_vars(av_return(1))

\* The ledger and the bookings list, one request at a time.
NextList ==
    \/ Ready /\ create_resource("A", "room", TRUE)
    \/ Ready /\ \E req \in Requests(1..MaxResources, {"alice"}, ValidIntervals) :
          create_booking(req)
    \/ Ready /\ \E booking_id \in 1..MaxBookings : cancel_booking(booking_id)
    \/ Ready /\ \E resource_id \in OptResourceIds, date_from \in OptDateFroms,
                   date_to \in OptDateTos, status \in OptStatuses :
          gb_call(1, resource_id, date_from, date_to, status)
    \/ gb_query(1)
    \/ Deliver

SpecList == Init /\ [][NextList]_vars

\* The ledger alone, with intervals that overlap two bookings at once.
ReleaseRequests == Requests(1..MaxResources, {"alice"}, ReleaseIntervals)

NextRelease ==
    \/ Ready /\ \E is_active \in BOOLEAN : create_resource("A", "room", is_active)
    \/ Ready /\ \E req \in ReleaseRequests : create_booking(req)
    \/ Ready /\ \E booking_id \in 1..MaxBookings : cancel_booking(booking_id)
    \/ Deliver

SpecRelease == Init /\ [][NextRelease]_vars

\* ------------------------------------------------------------------ claims
\* half-open interval overlap of two rows or requests
Overlap(a, b) == a.start_at < b.end_at /\ b.start_at < a.end_at

Active(b) == b.status = "active"

ResourceExists(resource_id) == \E i \in 1..Len(resources) : resources[i].id = resource_id

ResourceActive(resource_id) ==
    \E i \in 1..Len(resources) : resources[i].id = resource_id /\ resources[i].is_active

\* C1: with one request at a time, no two distinct active bookings of the
\* same resource have overlapping half-open intervals.
NoActiveOverlap ==
    \A i, j \in 1..Len(bookings) :
        (/\ i # j
         /\ bookings[i].resource_id = bookings[j].resource_id
         /\ Active(bookings[i]) /\ Active(bookings[j]))
        => ~(/\ bookings[i].start_at < bookings[j].end_at
             /\ bookings[j].start_at < bookings[i].end_at)

\* two active bookings share a resource, after a request was rejected
W_TwoActiveOnResource ==
    /\ \E i, j \in 1..Len(bookings) :
        /\ i # j
        /\ bookings[i].resource_id = bookings[j].resource_id
        /\ Active(bookings[i]) /\ Active(bookings[j])
    /\ response.op = "create_booking" /\ response.status = 409

\* the set of rows of a table
Rows(tbl) == { tbl[i] : i \in 1..Len(tbl) }

\* C2: with concurrent create_booking handlers whose conflict query and
\* insert interleave, two requests with overlapping intervals for the same
\* resource never both commit an active booking.
NoDoubleBookingUnderConcurrency ==
    \A b1, b2 \in Rows(bookings) :
        (b1.id < b2.id /\ b1.resource_id = b2.resource_id /\ Active(b1) /\ Active(b2))
        => (b1.end_at <= b2.start_at \/ b2.end_at <= b1.start_at)

\* C3: a create_booking request with a valid interval on an existing active
\* resource is rejected with 409 exactly when a stored active booking of the
\* resource overlaps it; otherwise exactly one row is appended, active and
\* with the requested fields, and is returned.
CreateBookingDecision ==
    [][\A req \in BookingRequests :
         (/\ req.end_at > req.start_at
          /\ ResourceActive(req.resource_id)
          /\ create_booking(req))
         => IF \E i \in 1..Len(bookings) :
                  /\ bookings[i].resource_id = req.resource_id
                  /\ bookings[i].status = "active"
                  /\ bookings[i].start_at < req.end_at
                  /\ req.start_at < bookings[i].end_at
            THEN /\ response'.status = 409
                 /\ bookings' = bookings
            ELSE /\ response'.status = 200
                 /\ Len(bookings') = Len(bookings) + 1
                 /\ SubSeq(bookings', 1, Len(bookings)) = bookings
                 /\ LET b == bookings'[Len(bookings')]
                    IN  /\ b.status = "active"
                        /\ b.resource_id = req.resource_id
                        /\ b.customer_name = req.customer_name
                        /\ b.start_at = req.start_at
                        /\ b.end_at = req.end_at
                        /\ response'.body = <<b>>
    ]_vars

\* the booking just created touches an active booking of its resource at an
\* endpoint, and a canceled or foreign booking may overlap it
W_BackToBackAccepted ==
    /\ response.op = "create_booking" /\ response.status = 200
    /\ LET b == response.body[1]
       IN  \E i \in 1..Len(bookings) :
              /\ bookings[i].id # b.id
              /\ bookings[i].resource_id = b.resource_id
              /\ Active(bookings[i])
              /\ (bookings[i].end_at = b.start_at \/ b.end_at = bookings[i].start_at)

\* C4: a request that ends in an error leaves every row of both tables as
\* it was.
ErrorsLeaveStoreUnchanged ==
    [][response'.status >= 400 => (resources' = resources /\ bookings' = bookings)]_vars

\* an error response in a store that holds resources and bookings
W_ErrorWithStore ==
    /\ response.status >= 400
    /\ Len(resources) > 0 /\ Len(bookings) > 0

\* C5: create_booking with end_at <= start_at fails with 422, whatever the
\* state of the resource it names.
InvalidIntervalRejectedFirst ==
    [][\A req \in BookingRequests :
         (req.end_at <= req.start_at /\ create_booking(req))
         => /\ response'.op = "create_booking"
            /\ response'.status = 422
            /\ bookings' = bookings
    ]_vars

\* the validation error in a store with an inactive resource, an active one
\* and a booking
W_InvalidInterval ==
    /\ response.op = "create_booking" /\ response.status = 422
    /\ \E i, j \in 1..Len(resources) : resources[i].is_active /\ ~resources[j].is_active
    /\ Len(bookings) > 0

BookingLifecycle ==
    [][/\ Len(bookings') >= Len(bookings)
       /\ \A i \in 1..Len(bookings) :
            /\ bookings'[i].id = bookings[i].id
            /\ bookings[i].status = "canceled" => bookings'[i].status = "canceled"
            /\ bookings'[i].status # bookings[i].status
                 => /\ bookings[i].status = "active"
                    /\ bookings'[i].status = "canceled"
                    /\ cancel_booking(bookings[i].id)
       /\ \A i \in (Len(bookings) + 1)..Len(bookings') : bookings'[i].status = "active"
    ]_vars

\* a booking was canceled and, later, another one was created
W_CanceledThenCreated ==
    /\ response.op = "create_booking" /\ response.status = 200
    /\ \E i \in 1..Len(bookings) :
         bookings[i].status = "canceled" /\ bookings[i].id < response.body[1].id

\* C8: a successful cancel_booking(id) sets the status of row id to canceled
\* and changes nothing else: no other field of the row, no other row, no
\* resource, and no row is added or removed.
CancelFrame ==
    [][\A booking_id \in BookingIds :
         (cancel_booking(booking_id) /\ response'.status = 200)
         => /\ resources' = resources
            /\ Len(bookings') = Len(bookings)
            /\ \A i \in 1..Len(bookings) :
                 IF bookings[i].id = booking_id
                 THEN /\ bookings'[i].status = "canceled"
                      /\ \A f \in DOMAIN bookings[i] \ {"status"} :
                           bookings'[i][f] = bookings[i][f]
                 ELSE bookings'[i] = bookings[i]
    ]_vars

\* an active booking was just canceled while another active booking of the
\* same resource is stored
W_CanceledBesideActive ==
    /\ response.op = "cancel_booking" /\ response.status = 200
    /\ \E i \in 1..Len(bookings) :
         /\ bookings[i].id # response.body[1].id
         /\ bookings[i].resource_id = response.body[1].resource_id
         /\ Active(bookings[i])

\* C9: cancel_booking on a booking that is already canceled succeeds,
\* returns the booking with status canceled and leaves the store as it is.
CancelIdempotent ==
    [][\A booking_id \in BookingIds :
         (/\ \E i \in 1..Len(bookings) :
                bookings[i].id = booking_id /\ bookings[i].status = "canceled"
          /\ cancel_booking(booking_id))
         => /\ response'.op = "cancel_booking"
            /\ response'.status = 200
            /\ Len(response'.body) = 1
            /\ response'.body[1].id = booking_id
            /\ response'.body[1].status = "canceled"
            /\ response'.body[1] = bookings[booking_id]
            /\ bookings' = bookings
            /\ resources' = resources
    ]_vars

\* the response of a cancel in a store where every booking is canceled:
\* the state that a repeated cancel starts from and ends in
W_CancelOfCanceled ==
    /\ response.op = "cancel_booking" /\ response.status = 200
    /\ response.body[1].status = "canceled"
    /\ \A i \in 1..Len(bookings) : bookings[i].status = "canceled"
    /\ Len(bookings) >= 2

\* C10: with parseable inputs and slot_minutes > 0, get_availability goes on
\* to its loop for any resource id, existing or not, and returns exactly the
\* slots of the grid that overlap no stored active booking of that id.
AvailabilityIsFreeGrid ==
    [][/\ (/\ av_parse(1)
           /\ ParseDate(local[1].date) # <<>>
           /\ ParseTime(local[1].work_start) # <<>>
           /\ ParseTime(local[1].work_end) # <<>>)
            => /\ pc'[1] = "loop"
               /\ response' = NoResponse
               /\ local'[1].resource_id = local[1].resource_id
               /\ local'[1].slot_minutes = local[1].slot_minutes
       /\ av_return(1)
            => LET f == local[1]
                   n == IF f.day_end - f.day_start >= f.slot_minutes
                        THEN (f.day_end - f.day_start) \div f.slot_minutes ELSE 0
                   s(k) == f.day_start + k * f.slot_minutes
                   Blocked(k) ==
                       \E i \in 1..Len(bookings) :
                           /\ bookings[i].resource_id = f.resource_id
                           /\ bookings[i].status = "active"
                           /\ s(k) < bookings[i].end_at
                           /\ bookings[i].start_at < s(k) + f.slot_minutes
                   free == { k \in 0..(n - 1) : ~Blocked(k) }
                   Slot(k) == [start |-> IsoFormat(s(k)),
                               end |-> IsoFormat(s(k) + f.slot_minutes)]
                   slots == response'.body[1].available_slots
               IN  /\ response'.status = 200
                   /\ Len(slots) = Cardinality(free)
                   /\ \A k \in free : \E j \in 1..Len(slots) : slots[j] = Slot(k)
    ]_vars

\* an availability response for a resource that is inactive: the slot of its
\* active booking is missing, the slot of its canceled booking is returned
W_SlotBlockedByActiveOnly ==
    /\ response.op = "get_availability" /\ response.status = 200
    /\ ~ResourceActive(response.body[1].resource_id)
    /\ LET slots == response.body[1].available_slots
       IN  \E i, j \in 1..Len(bookings) :
              /\ bookings[i].resource_id = response.body[1].resource_id
              /\ bookings[j].resource_id = response.body[1].resource_id
              /\ Active(bookings[i]) /\ ~Active(bookings[j])
              /\ \A k \in 1..Len(slots) : slots[k].start # IsoFormat(bookings[i].start_at)
              /\ \E k \in 1..Len(slots) : slots[k].start = IsoFormat(bookings[j].start_at)

\* C11: for slot_minutes > 0 every returned slot is a slot of the grid
\* (start = day_start + k * slot_minutes, end = start + slot_minutes <=
\* day_end), the slots are in strictly increasing order, trailing time shorter
\* than a slot is not emitted; with no active booking of the resource the
\* result is the whole grid of floor((day_end - day_start) / slot_minutes)
\* slots, 18 of them from 09:00 to 18:00 for 30 minutes, and none when the
\* window is shorter than one slot.
GridShape ==
    [][(av_return(1) /\ local[1].slot_minutes > 0)
         => LET f == local[1]
                n == IF f.day_end - f.day_start >= f.slot_minutes
                     THEN (f.day_end - f.day_start) \div f.slot_minutes ELSE 0
                iso == [k \in 0..n |-> IsoFormat(f.day_start + k * f.slot_minutes)]
                slots == response'.body[1].available_slots
                K(j) == CHOOSE k \in 0..(n - 1) : slots[j].start = iso[k]
                NoActive == \A i \in 1..Len(bookings) :
                                ~(/\ bookings[i].resource_id = f.resource_id
                                  /\ bookings[i].status = "active")
            IN  /\ response'.status = 200
                /\ \A k1, k2 \in 0..n : k1 # k2 => iso[k1] # iso[k2]
                /\ \A j \in 1..Len(slots) :
                     \E k \in 0..(n - 1) :
                        /\ slots[j].start = iso[k]
                        /\ slots[j].end = iso[k + 1]
                        /\ f.day_start + (k + 1) * f.slot_minutes <= f.day_end
                /\ \A j \in 1..(Len(slots) - 1) : K(j) < K(j + 1)
                /\ NoActive =>
                     /\ Len(slots) = n
                     /\ \A k \in 1..n : slots[k] = [start |-> iso[k - 1], end |-> iso[k]]
                /\ f.day_end - f.day_start < f.slot_minutes => slots = <<>>
                /\ (/\ NoActive /\ f.slot_minutes = 30
                    /\ f.day_start = T(9, 0) /\ f.day_end = T(18, 0))
                     => /\ Len(slots) = 18
                        /\ slots[1].start =
                             <<"2", "0", "2", "4", "-", "0", "1", "-", "0", "1", "T",
                               "0", "9", ":", "0", "0", ":", "0", "0">>
                        /\ slots[18].end =
                             <<"2", "0", "2", "4", "-", "0", "1", "-", "0", "1", "T",
                               "1", "8", ":", "0", "0", ":", "0", "0">>
    ]_vars

\* the whole grid of a day without bookings: 18 slots from 09:00 to 18:00
W_WholeDayGrid ==
    /\ response.op = "get_availability" /\ response.status = 200
    /\ LET slots == response.body[1].available_slots
       IN  /\ Len(slots) = 18
           /\ slots[1].start = IsoFormat(T(9, 0))
           /\ slots[18].end = IsoFormat(T(18, 0))

\* C12: every get_availability call ends, for every slot_minutes the handler
\* accepts (zero and negative values included): a call that has entered the
\* loop answers after finitely many iterations.  (A call that has collected
\* MaxSlots slots is not followed further and counts as ended.)
AvailabilityTerminates ==
    (pc[1] = "loop")
      ~> (\/ pc[1] = "idle"
          \/ pc[1] \in {"loop", "scan"} /\ Len(local[1].available_slots) >= MaxSlots)

\* C13: list_bookings returns exactly the stored bookings that satisfy every
\* filter that was provided (resource_id equal, start_at >= date_from, end_at
\* <= date_to, status equal), also for resource_id = 0 and the empty status;
\* without filters it returns all bookings; the result is ordered by
\* non-decreasing start_at.
ListMatchesProvidedFilters ==
    [][gb_query(1)
         => LET a == local[1]
                rows == response'.body
                Matches(b) ==
                    /\ a.resource_id # <<>> => b.resource_id = a.resource_id[1]
                    /\ a.date_from # <<>> => b.start_at >= a.date_from[1]
                    /\ a.date_to # <<>> => b.end_at <= a.date_to[1]
                    /\ a.status # <<>> => b.status = a.status[1]
            IN  /\ response'.status = 200
                /\ Rows(rows) = { b \in Rows(bookings) : Matches(b) }
                /\ Len(rows) = Cardinality(Rows(rows))
                /\ \A i \in 1..(Len(rows) - 1) : rows[i].start_at <= rows[i + 1].start_at
    ]_vars

\* C14: a successful cancel_booking(id) leaves the booking canceled, and it
\* stays canceled; a booking that was not canceled is active.  Every
\* list_bookings(status = "active") returns exactly the bookings that are
\* active, so it holds a booking before its cancel and never after it, and
\* list_bookings(status = "canceled") returns exactly the canceled ones.
CancelMovesBetweenLists ==
    [][LET Listed(b) == \E j \in 1..Len(response'.body) : response'.body[j].id = b.id
           OnlyStatus(v) == [resource_id |-> <<>>, date_from |-> <<>>,
                             date_to |-> <<>>, status |-> <<v>>]
       IN  /\ \A id \in 1..MaxBookings :
                (cancel_booking(id) /\ response'.status = 200)
                  => bookings'[id].status = "canceled"
           /\ \A i \in 1..Len(bookings) :
                /\ bookings[i].status = "canceled" => bookings'[i].status = "canceled"
                /\ bookings'[i].status # bookings[i].status => cancel_booking(i)
           /\ \A i \in (Len(bookings) + 1)..Len(bookings') : bookings'[i].status = "active"
           /\ (gb_query(1) /\ local[1] = OnlyStatus("active"))
                => \A b \in Rows(bookings) : Listed(b) <=> b.status = "active"
           /\ (gb_query(1) /\ local[1] = OnlyStatus("canceled"))
                => \A b \in Rows(bookings) : Listed(b) <=> b.status = "canceled"
    ]_vars

\* a list that holds one canceled booking and leaves out an active booking of
\* the same resource that passes every date filter of the model: only the
\* status filter tells them apart
W_ListedCanceledOnly ==
    /\ response.op = "get_bookings"
    /\ Len(response.body) = 1
    /\ response.body[1].status = "canceled"
    /\ \E i \in 1..Len(bookings) :
         /\ bookings[i].resource_id = response.body[1].resource_id
         /\ bookings[i].status = "active"
         /\ bookings[i].start_at = T(10, 30) /\ bookings[i].end_at = T(10, 45)

\* C15: a booking is written only while its resource is stored as active,
\* also when update_resource(is_active = false) runs between the steps of a
\* concurrent create_booking: at every insert/commit of a booking, the
\* resource of the booking is active.
BookingWrittenOnlyWhileActive ==
    [][\A p \in Procs : cb_insert(p) => ResourceActive(local[p].resource_id)]_vars

\* C16: update_resource leaves every booking as it is, whatever it sets.  The
\* active bookings of a deactivated resource still remove their slots from
\* get_availability and can still be canceled; a create_booking with a valid
\* interval fails on the resource check exactly while the resource is not
\* stored as active.
UpdateLeavesBookings ==
    [][/\ response'.op = "update_resource" => bookings' = bookings
       /\ \A resource_id \in ResourceIds :
            (/\ response'.op = "get_availability"
             /\ get_availability(resource_id,
                                 <<"2", "0", "2", "4", "-", "0", "1", "-", "0", "1">>, 30,
                                 <<"0", "9", ":", "0", "0">>, <<"1", "1", ":", "0", "0">>))
              => LET slots == response'.body[1].available_slots
                 IN  \A b \in Rows(bookings), k \in 0..3 :
                        (/\ b.resource_id = resource_id /\ Active(b)
                         /\ T(9, 0) + 30 * k < b.end_at
                         /\ b.start_at < T(9, 0) + 30 * (k + 1))
                          => \A j \in 1..Len(slots) :
                                slots[j].start # IsoFormat(T(9, 0) + 30 * k)
       /\ \A booking_id \in BookingIds :
            (/\ response'.op = "cancel_booking"
             /\ booking_id <= Len(bookings)
             /\ cancel_booking(booking_id))
              => /\ response'.status = 200
                 /\ bookings'[booking_id].status = "canceled"
       /\ \A req \in BookingRequests :
            (/\ response'.op = "create_booking"
             /\ req.end_at > req.start_at
             /\ create_booking(req))
              => (response'.status = 400 <=> ~ResourceActive(req.resource_id))
    ]_vars

\* a resource was just deactivated and holds an active booking
W_DeactivatedWithActiveBooking ==
    /\ response.op = "update_resource" /\ response.status = 200
    /\ ~response.body[1].is_active
    /\ \E i \in 1..Len(bookings) :
         bookings[i].resource_id = response.body[1].id /\ Active(bookings[i])

\* C17: canceling releases the interval.  A successful cancel_booking(id)
\* takes that booking, and nothing else, out of the conflicts of every
\* request; and a request on an active resource is rejected with 409 exactly
\* when an active booking of the resource overlaps it, so once every booking
\* that blocked it is canceled the same request succeeds, and a canceled
\* booking never causes a conflict.
CancelReleasesInterval ==
    [][/\ \A booking_id \in 1..MaxBookings :
            (/\ response'.op = "cancel_booking" /\ response'.status = 200
             /\ cancel_booking(booking_id))
              => \A req \in ReleaseRequests :
                    Rows(ConflictQuery(bookings', req))
                      = { b \in Rows(ConflictQuery(bookings, req)) : b.id # booking_id }
       /\ \A req \in ReleaseRequests :
            (/\ response'.op = "create_booking"
             /\ ResourceActive(req.resource_id)
             /\ create_booking(req))
              => LET blockers == { b \in Rows(bookings) :
                                     b.resource_id = req.resource_id /\ Overlap(b, req) }
                 IN  /\ response'.status = 409 <=> \E b \in blockers : Active(b)
                     /\ (\A b \in blockers : ~Active(b))
                          => /\ response'.status = 200
                             /\ response'.body[1].resource_id = req.resource_id
                             /\ response'.body[1].start_at = req.start_at
                             /\ response'.body[1].end_at = req.end_at
                             /\ bookings' = Append(bookings, response'.body[1])
    ]_vars

\* a booking was accepted over a canceled booking of its resource
W_BookedOverCanceled ==
    /\ response.op = "create_booking" /\ response.status = 200
    /\ \E i \in 1..Len(bookings) :
         /\ bookings[i].resource_id = response.body[1].resource_id
         /\ bookings[i].status = "canceled"
         /\ Overlap(bookings[i], response.body[1])

\* C18: availability and the ledger agree.  For an existing active resource
\* and slot_minutes > 0, a create_booking for any returned slot, with the
\* start and end strings of the slot, issued in the state of the answer passes
\* the interval check, the resource check and the conflict query (it is
\* accepted); and a create_booking for any grid slot that was left out passes
\* the first two and fails the conflict query (409).
AvailabilityAgreesWithLedger ==
    [][(av_return(1) /\ local[1].slot_minutes > 0 /\ ResourceActive(local[1].resource_id))
         => LET f == local[1]
                n == IF f.day_end - f.day_start >= f.slot_minutes
                     THEN (f.day_end - f.day_start) \div f.slot_minutes ELSE 0
                slots == response'.body[1].available_slots
                Req(a, b) == [resource_id |-> f.resource_id, customer_name |-> "alice",
                              start_at |-> a, end_at |-> b]
                Passes(req) == ~check_dates(req) /\ ~ResourceRejected(resources, req)
            IN  /\ \A j \in 1..Len(slots) :
                     LET a == ParseIsoDatetime(slots[j].start)
                         b == ParseIsoDatetime(slots[j].end)
                     IN  /\ a # <<>> /\ b # <<>>
                         /\ Passes(Req(a[1], b[1]))
                         /\ ConflictQuery(bookings, Req(a[1], b[1])) = <<>>
                /\ \A k \in 0..(n - 1) :
                     LET a == f.day_start + k * f.slot_minutes
                         b == a + f.slot_minutes
                     IN  (\A j \in 1..Len(slots) : slots[j].start # IsoFormat(a))
                           => /\ Passes(Req(a, b))
                              /\ ConflictQuery(bookings, Req(a, b)) # <<>>
    ]_vars

\* an answer for an active resource that returns the slot ending where an
\* active booking of the resource starts, and leaves out the slot starting there
W_FreeAndTakenSlots ==
    /\ response.op = "get_availability" /\ response.status = 200
    /\ ResourceActive(response.body[1].resource_id)
    /\ LET slots == response.body[1].available_slots
       IN  \E i \in 1..Len(bookings) :
              /\ bookings[i].resource_id = response.body[1].resource_id
              /\ Active(bookings[i])
              /\ \E k \in 1..Len(slots) : slots[k].end = IsoFormat(bookings[i].start_at)
              /\ \A k \in 1..Len(slots) : slots[k].start # IsoFormat(bookings[i].start_at)

\* C19: resources are independent.  A create_booking or cancel_booking step
\* changes, for every resource other than the one whose booking it wrote,
\* neither the outcome of the checks of any create_booking (resource check,
\* conflict query) nor the slots that get_availability computes.
ResourcesIndependent ==
    [][response'.op \in {"create_booking", "cancel_booking"}
         => LET written == { j \in 1..Len(bookings') :
                               j > Len(bookings) \/ bookings'[j] # bookings[j] }
                touched == { bookings'[j].resource_id : j \in written }
            IN  \A r2 \in ResourceIds \ touched :
                   /\ \A req \in Requests({r2}, {"alice"}, ReleaseIntervals) :
                        /\ ResourceRejected(resources', req) = ResourceRejected(resources, req)
                        /\ ConflictQuery(bookings', req) = ConflictQuery(bookings, req)
                   /\ \A slot_minutes \in SlotMinutes :
                        SlotLoop(T(9, 0), T(12, 0), slot_minutes,
                                 DayBookings(bookings', r2, T(9, 0), T(12, 0)), <<>>)
                          = SlotLoop(T(9, 0), T(12, 0), slot_minutes,
                                     DayBookings(bookings, r2, T(9, 0), T(12, 0)), <<>>)
    ]_vars

\* a booking was accepted while another resource holds an active booking of
\* the same interval
W_SameIntervalTwoResources ==
    /\ response.op = "create_booking" /\ response.status = 200
    /\ \E i \in 1..Len(bookings) :
         /\ bookings[i].resource_id # response.body[1].resource_id
         /\ Active(bookings[i])
         /\ bookings[i].start_at = response.body[1].start_at
         /\ bookings[i].end_at = response.body[1].end_at

====
